---- MODULE Spec2Model ----
(***************************************************************************)
(* Model of the document analysis pipeline of src/src/services/openai.ts:  *)
(* splitTextIntoChunks, analyzeChunk, mergeTerms and analyzeText.          *)
(*                                                                         *)
(* Strings are sequences of one-character strings.  The values a JSON      *)
(* payload can hold are tagged records (JNull, JNum, JStr, JArr, JObj);    *)
(* an object is a record over Fields in which an absent field reads as     *)
(* JUndef, which is what a property access on a parsed JSON object gives.  *)
(***************************************************************************)
EXTENDS Integers, Sequences, FiniteSets, TLC

VARIABLES
    pc,           \* position of the operation under way
    text,         \* analyzeText: the document
    chunkSize,    \* the value of CHUNK_SIZE in this configuration
    overlapSize,  \* the value of OVERLAP_SIZE in this configuration
    chunks,       \* analyzeText: const chunks = splitTextIntoChunks(text)
    i,            \* analyzeText: the loop index
    allTerms,     \* analyzeText: the accumulated terms
    result,       \* what analyzeText's promise resolved to (NoResult before, or when it rejects)
    progress,     \* the onProgress calls made so far, <<current, total>> each
    calls,        \* the chunk indexes submitted to openai.chat.completions.create, in order
    kinds,        \* per analysed chunk, what the API call came to
    windowTerms,  \* per analysed chunk, the terms analyzeChunk returned
    chunk,        \* analyzeChunk: its chunk argument
    startIndex,   \* analyzeChunk: its startIndex argument; in SpecChunkLoop, the
                  \* startIndex of splitTextIntoChunks
    content,      \* analyzeChunk: response.choices[0].message.content
    chunkTerms,   \* analyzeChunk: its return value
    path,         \* analyzeChunk: the path it took
    state,        \* App: the workflow state
    appTerms,     \* App: its terms, the ones on display
    error,        \* App: the error on display, NoError for null
    inflight,     \* App: the calls of analyzeText that have not settled
    cancelledAfter \* the number of windows submitted when the user asked for the
                  \* run to be abandoned, -1 as long as they have not

vars == <<pc, text, chunkSize, overlapSize, chunks, i, allTerms, result, progress,
          calls, kinds, windowTerms, chunk, startIndex, content, chunkTerms, path,
          state, appTerms, error, inflight, cancelledAfter>>

\* What lies outside analyzeText: the state of App, and the user's wish to cancel
outerVars == <<state, appTerms, error, inflight, cancelledAfter>>

driverVars == <<text, chunkSize, overlapSize, chunks, i, allTerms, result, progress,
                calls, kinds, windowTerms>>

chunkCallVars == <<chunk, startIndex, content, chunkTerms, path>>

(***************************************************************************)
(* Bounds of the model.                                                    *)
(***************************************************************************)
MaxTextLen == 4
MaxChunkSize == 3
MaxChunkLen == 2
MaxRecords == 1
MaxMergeLen == 3

(***************************************************************************)
(* The configuration constants of the source.                              *)
(***************************************************************************)
CHUNK_SIZE == 3000
OVERLAP_SIZE == 200

NoError == <<>>

\* App as it is mounted (part_000 lines 288-293), and no wish to cancel
OuterInit ==
    /\ state = "input"
    /\ appTerms = <<>>
    /\ error = NoError
    /\ inflight = 0
    /\ cancelledAfter = -1

Min(a, b) == IF a < b THEN a ELSE b

Max(a, b) == IF a > b THEN a ELSE b

(***************************************************************************)
(* Characters and String.prototype.toLowerCase.  U0130 is LATIN CAPITAL    *)
(* LETTER I WITH DOT ABOVE, the one character whose lower case is two      *)
(* UTF-16 code units (i followed by U+0307 COMBINING DOT ABOVE).           *)
(***************************************************************************)
Chars == {"a", "A", "b", "U0130"}

LowerChar(c) ==
    CASE c = "A" -> <<"a">>
      [] c = "U0130" -> <<"i", "U0307">>
      [] OTHER -> <<c>>

\* The lower case of a string is that of its characters, one after the other;
\* the string is halved so that a chunk of CHUNK_SIZE characters is within
\* reach
RECURSIVE toLowerCase(_)
toLowerCase(s) ==
    IF Len(s) = 0 THEN <<>>
    ELSE IF Len(s) = 1 THEN LowerChar(s[1])
    ELSE LET half == Len(s) \div 2
         IN toLowerCase(SubSeq(s, 1, half)) \o toLowerCase(SubSeq(s, half + 1, Len(s)))

\* String.prototype.substring(start, end): an argument below 0 counts as 0,
\* one above the length as the length, and the two are swapped if start > end
substring(s, start, end) ==
    LET from == Min(Max(start, 0), Len(s))
        to == Min(Max(end, 0), Len(s))
    IN SubSeq(s, Min(from, to) + 1, Max(from, to))

\* String.prototype.indexOf: the first index at which needle occurs, else -1
indexOf(hay, needle) ==
    LET hits == {j \in 0..(Len(hay) - Len(needle)) :
                    substring(hay, j, j + Len(needle)) = needle}
    IN IF hits = {} THEN -1 ELSE CHOOSE j \in hits : \A k \in hits : j <= k

\* All strings over alphabet of length at most n
RECURSIVE StringsUpTo(_, _)
StringsUpTo(alphabet, n) ==
    IF n = 0 THEN {<<>>}
    ELSE LET shorter == StringsUpTo(alphabet, n - 1)
         IN shorter \cup {Append(s, c) : s \in shorter, c \in alphabet}

(***************************************************************************)
(* splitTextIntoChunks (lines 60-79).  The source reads the sizes from     *)
(* CHUNK_SIZE and OVERLAP_SIZE; here they are parameters, so that the loop *)
(* can be run on short documents.                                          *)
(***************************************************************************)
\* A restart past the end of the window instead of inside it
NextStart_gap(endIndex, overlap) == endIndex + overlap

\* A restart at the end of the window, without overlap
NextStart_abutting(endIndex, overlap) == endIndex

\* line 75: startIndex = endIndex - OVERLAP_SIZE
NextStart(endIndex, overlap) == endIndex - overlap

\* A loop that is entered while startIndex <= text.length
RECURSIVE ChunkLoop_inclusive(_, _, _, _, _)
ChunkLoop_inclusive(t, size, overlap, start, acc) ==
    IF ~(start <= Len(t)) THEN acc
    ELSE LET endIndex == Min(start + size, Len(t))
             pushed == Append(acc, [chunk |-> substring(t, start, endIndex),
                                    startIndex |-> start])
         IN IF endIndex >= Len(t) THEN pushed
            ELSE ChunkLoop_inclusive(t, size, overlap, NextStart(endIndex, overlap), pushed)

\* lines 64-76: the while loop, from startIndex = start with acc pushed so far
RECURSIVE ChunkLoop(_, _, _, _, _)
ChunkLoop(t, size, overlap, start, acc) ==
    IF ~(start < Len(t)) THEN acc
    ELSE LET endIndex == Min(start + size, Len(t))
             pushed == Append(acc, [chunk |-> substring(t, start, endIndex),
                                    startIndex |-> start])
         IN IF endIndex >= Len(t) THEN pushed
            ELSE ChunkLoop(t, size, overlap, NextStart(endIndex, overlap), pushed)

splitTextIntoChunks(t, size, overlap) == ChunkLoop(t, size, overlap, 0, <<>>)

(***************************************************************************)
(* JavaScript values, as far as analyzeChunk looks at them.                *)
(***************************************************************************)
JUndef == [t |-> "undefined"]
JNull == [t |-> "null"]
JNum(n) == [t |-> "number", n |-> n]
JStr(s) == [t |-> "string", s |-> s]
JArr(a) == [t |-> "array", a |-> a]
JObj(o) == [t |-> "object", o |-> o]

\* The property names the code reads
Fields == {"term", "context", "possible_meanings", "likely_intended_meaning",
           "likely_meaning", "confidence", "terms", "ambiguous_terms"}

\* The object {} : every property reads as undefined
EmptyObject == [f \in Fields |-> JUndef]

\* v.f, for v neither null nor undefined: a primitive or an array has none of Fields
Get(v, f) == IF v.t = "object" THEN v.o[f] ELSE JUndef

\* ToBoolean
Truthy(v) ==
    CASE v.t \in {"undefined", "null"} -> FALSE
      [] v.t = "number" -> v.n # 0
      [] v.t = "string" -> v.s # <<>>
      [] OTHER -> TRUE

\* a ?? b, which replaces only null and undefined
Or_nullish(a, b) == IF a.t \in {"undefined", "null"} THEN b ELSE a

\* a || b
Or(a, b) == IF Truthy(a) THEN a ELSE b

\* Array.isArray
IsArray(v) == v.t = "array"

(***************************************************************************)
(* The outcome of openai.chat.completions.create (lines 123-139): the call *)
(* rejects, or resolves to a response without choices, or to a response    *)
(* whose message content is null, "", text that is not JSON, or the JSON   *)
(* text of a value.                                                        *)
(***************************************************************************)
Rejected == [t |-> "rejected"]
NoChoices == [t |-> "nochoices"]
EmptyText == [t |-> "string", text |-> "empty"]
GarbageText == [t |-> "string", text |-> "garbage"]
JsonText(v) == [t |-> "string", text |-> "json", value |-> v]

\* lines 123-139: the await rejects, or response.choices[0] is undefined
ResponseThrows(resp) == resp.t \in {"rejected", "nochoices"}

\* line 141: !content
ContentFalsy(ct) == ct.t = "null" \/ (ct.t = "string" /\ ct.text = "empty")

\* line 147: JSON.parse(content) throws a SyntaxError
ParseThrows(ct) == ct.text = "garbage"

\* line 147: JSON.parse(content), when it does not throw
JSONparse(ct) == ct.value

\* lines 153-157: a property access on null throws a TypeError
SelectThrows(parsed) == parsed.t = "null"

\* lines 151-158: whether one of the branches is taken
RecognizedShape(parsed) ==
    \/ IsArray(parsed)
    \/ (Truthy(Get(parsed, "terms")) /\ IsArray(Get(parsed, "terms")))
    \/ (Truthy(Get(parsed, "ambiguous_terms")) /\ IsArray(Get(parsed, "ambiguous_terms")))
    \/ Truthy(Get(parsed, "term"))

\* A selection that looks for a term field before it looks for the lists
SelectTerms_bareFirst(parsed) ==
    IF IsArray(parsed) THEN parsed.a
    ELSE IF Truthy(Get(parsed, "term")) THEN <<parsed>>
    ELSE IF Truthy(Get(parsed, "terms")) /\ IsArray(Get(parsed, "terms"))
        THEN Get(parsed, "terms").a
    ELSE IF Truthy(Get(parsed, "ambiguous_terms")) /\ IsArray(Get(parsed, "ambiguous_terms"))
        THEN Get(parsed, "ambiguous_terms").a
    ELSE <<>>

\* lines 150-159: the list of raw records
SelectTerms(parsed) ==
    IF IsArray(parsed) THEN parsed.a
    ELSE IF Truthy(Get(parsed, "terms")) /\ IsArray(Get(parsed, "terms"))
        THEN Get(parsed, "terms").a
    ELSE IF Truthy(Get(parsed, "ambiguous_terms")) /\ IsArray(Get(parsed, "ambiguous_terms"))
        THEN Get(parsed, "ambiguous_terms").a
    ELSE IF Truthy(Get(parsed, "term")) THEN <<parsed>>
    ELSE <<>>

\* line 163: term.term || ''
TermText(term) == Or(Get(term, "term"), JStr(<<>>))

\* lines 163-165: term.term on null throws; termText.toLowerCase is not a
\* function unless termText is a string
MapThrows(term) == term.t \in {"null", "undefined"} \/ TermText(term).t # "string"

\* line 165: chunk.toLowerCase().indexOf(termText.toLowerCase())
TermIndex(ck, termText) == indexOf(toLowerCase(ck), toLowerCase(termText))

\* lines 162-176: the callback of terms.map
mapTerm(term, ck, st) ==
    LET termText == TermText(term).s
        contextText == Or(Get(term, "context"), JStr(<<>>))
        termIndex == TermIndex(ck, termText)
    IN [term |-> termText,
        context |-> contextText,
        position_start |-> st + termIndex,
        position_end |-> st + termIndex + Len(termText),
        possible_meanings |-> Or(Get(term, "possible_meanings"), JArr(<<>>)),
        likely_intended_meaning |->
            Or(Or(Get(term, "likely_intended_meaning"), Get(term, "likely_meaning")),
               JStr(<<>>)),
        confidence |-> Or(Get(term, "confidence"), JNum(0))]

\* A map that leaves out the terms it does not find in the chunk
MapTerms_foundOnly(terms, ck, st) ==
    LET Found(term) == TermIndex(ck, TermText(term).s) # -1
        found == SelectSeq(terms, Found)
    IN [k \in 1..Len(found) |-> mapTerm(found[k], ck, st)]

\* lines 162-176: terms.map, one Term per raw record
MapTerms(terms, ck, st) == [k \in 1..Len(terms) |-> mapTerm(terms[k], ck, st)]

\* lines 141-144: console.warn and return []
OnEmpty == [path |-> "empty", terms |-> <<>>]

\* A catch block that throws the error on instead of returning []
OnCatch_rethrow == [path |-> "threw", terms |-> <<>>]

\* lines 177-180: console.error and return []
OnCatch == [path |-> "caught", terms |-> <<>>]

\* lines 123-139: the exception leaves analyzeChunk
OnThrow == [path |-> "threw", terms |-> <<>>]

\* analyzeChunk (lines 92-181), given the outcome of the API call: the path
\* taken and the terms returned
analyzeChunkRun(resp, ck, st) ==
    IF ResponseThrows(resp) THEN OnThrow
    ELSE IF ContentFalsy(resp) THEN OnEmpty
    ELSE IF ParseThrows(resp) THEN OnCatch
    ELSE LET parsed == JSONparse(resp)
         IN IF SelectThrows(parsed) THEN OnCatch
            ELSE LET terms == SelectTerms(parsed)
                 IN IF \E k \in 1..Len(terms) : MapThrows(terms[k]) THEN OnCatch
                    ELSE [path |-> IF RecognizedShape(parsed) THEN "mapped"
                                   ELSE "unrecognized",
                          terms |-> MapTerms(terms, ck, st)]

(***************************************************************************)
(* The relational operator > of JavaScript on the values a confidence can  *)
(* hold: two numbers compare as numbers, two strings by code units, and a  *)
(* number against a string compares the string's ToNumber, which is NaN    *)
(* for the strings of this model (none is numeric), so the result is false.*)
(***************************************************************************)
CodeUnit(c) ==
    CASE c = "A" -> 65
      [] c = "a" -> 97
      [] c = "b" -> 98
      [] c = "c" -> 99
      [] c = "h" -> 104
      [] c = "i" -> 105
      [] c = "k" -> 107
      [] c = "m" -> 109
      [] c = "U0130" -> 304
      [] c = "U0307" -> 775

RECURSIVE StrGreater(_, _)
StrGreater(x, y) ==
    IF x = <<>> THEN FALSE
    ELSE IF y = <<>> THEN TRUE
    ELSE IF Head(x) # Head(y) THEN CodeUnit(Head(x)) > CodeUnit(Head(y))
    ELSE StrGreater(Tail(x), Tail(y))

JsGreater(x, y) ==
    CASE x.t = "number" /\ y.t = "number" -> x.n > y.n
      [] x.t = "string" /\ y.t = "string" -> StrGreater(x.s, y.s)
      [] OTHER -> FALSE

(***************************************************************************)
(* mergeTerms (lines 193-212).  A Map keeps its keys in insertion order,   *)
(* and set on a key it holds keeps the key's place: termMap is a sequence  *)
(* of entries.                                                             *)
(***************************************************************************)
\* A key that keeps the case of the term
MergeKey_exact(term) == term.term

\* line 197: term.term.toLowerCase()
MergeKey(term) == toLowerCase(term.term)

MapHas(m, key) == \E e \in 1..Len(m) : m[e].key = key

MapGet(m, key) == m[CHOOSE e \in 1..Len(m) : m[e].key = key].value

MapSet(m, key, value) ==
    IF MapHas(m, key)
    THEN [e \in 1..Len(m) |-> IF m[e].key = key THEN [key |-> key, value |-> value]
                                ELSE m[e]]
    ELSE Append(m, [key |-> key, value |-> value])

MapValues(m) == [e \in 1..Len(m) |-> m[e].value]

\* A replacement test that also replaces on equal confidence
KeepNew_orEqual(term, existing) == ~JsGreater(existing.confidence, term.confidence)

\* A comparison the wrong way round, which keeps the lower confidence
KeepNew_reversed(term, existing) == JsGreater(existing.confidence, term.confidence)

\* line 202: term.confidence > existing.confidence
KeepNew(term, existing) == JsGreater(term.confidence, existing.confidence)

\* A loop body that keeps the earlier position when it replaces a Term
MergeStep_earliestPosition(m, term) ==
    LET key == MergeKey(term)
    IN IF MapHas(m, key)
       THEN IF KeepNew(term, MapGet(m, key))
            THEN MapSet(m, key,
                        [term EXCEPT !.position_start =
                            Min(term.position_start, MapGet(m, key).position_start)])
            ELSE m
       ELSE MapSet(m, key, term)

\* lines 197-207: the body of the for loop
MergeStep(m, term) ==
    LET key == MergeKey(term)
    IN IF MapHas(m, key)
       THEN IF KeepNew(term, MapGet(m, key)) THEN MapSet(m, key, term) ELSE m
       ELSE MapSet(m, key, term)

RECURSIVE MergeLoop(_, _)
MergeLoop(m, ts) ==
    IF ts = <<>> THEN m ELSE MergeLoop(MergeStep(m, Head(ts)), Tail(ts))

\* A comparator with its operands swapped
ComparePosition_reversed(x, y) == y.position_start - x.position_start

\* line 211: (a, b) => a.position_start - b.position_start
ComparePosition(x, y) == x.position_start - y.position_start

\* Array.prototype.sort is stable: x goes before the first element that
\* compares greater than it
SortInsert(sorted, x) ==
    LET later == {e \in 1..Len(sorted) : ComparePosition(sorted[e], x) > 0}
        at == IF later = {} THEN Len(sorted) + 1
              ELSE CHOOSE e \in later : \A f \in later : e <= f
    IN SubSeq(sorted, 1, at - 1) \o <<x>> \o SubSeq(sorted, at, Len(sorted))

RECURSIVE SortLoop(_, _)
SortLoop(sorted, rest) ==
    IF rest = <<>> THEN sorted ELSE SortLoop(SortInsert(sorted, Head(rest)), Tail(rest))

mergeTerms(ts) == SortLoop(<<>>, MapValues(MergeLoop(<<>>, ts)))

\* The valid configurations with chunk size at most n: 0 < overlap < size
ValidConfigs(n) == {c \in (1..n) \X (1..n) : c[2] < c[1]}

Documents == StringsUpTo(Chars, MaxTextLen)

NoResult == [t |-> "none"]

(***************************************************************************)
(* SpecChunk: splitTextIntoChunks applied to every document and every      *)
(* valid configuration within the bounds.                                  *)
(***************************************************************************)
InitChunk ==
    /\ pc = "split"
    /\ text \in Documents
    /\ \E c \in ValidConfigs(MaxChunkSize) : chunkSize = c[1] /\ overlapSize = c[2]
    /\ chunks = <<>>
    /\ i = 0
    /\ allTerms = <<>>
    /\ result = NoResult
    /\ progress = <<>>
    /\ calls = <<>>
    /\ kinds = <<>>
    /\ windowTerms = <<>>
    /\ chunk = <<>>
    /\ startIndex = 0
    /\ content = NoResult
    /\ chunkTerms = <<>>
    /\ path = "none"
    /\ OuterInit

Split ==
    /\ pc = "split"
    /\ chunks' = splitTextIntoChunks(text, chunkSize, overlapSize)
    /\ pc' = "split_done"
    /\ UNCHANGED <<text, chunkSize, overlapSize, i, allTerms, result, progress,
                   calls, kinds, windowTerms>>
    /\ UNCHANGED chunkCallVars
    /\ UNCHANGED outerVars

NextChunk == Split

SpecChunk == InitChunk /\ [][NextChunk]_vars

\* The end offset of window k
WindowEnd(k) == chunks[k].startIndex + Len(chunks[k].chunk)

\* C4: for every document and valid configuration the windows cover
\* [0, len(document)) without gaps, the first window starts at 0, window
\* starts strictly increase, and each window's text is the document's text
\* at its offsets.
C4_ChunkCoverage ==
    pc = "split_done" =>
        /\ \A p \in 0..(Len(text) - 1) :
              \E k \in 1..Len(chunks) :
                  chunks[k].startIndex <= p /\ p < WindowEnd(k)
        /\ (Len(chunks) >= 1 => chunks[1].startIndex = 0)
        /\ \A k \in 1..(Len(chunks) - 1) :
              chunks[k].startIndex < chunks[k + 1].startIndex
        /\ \A k \in 1..Len(chunks) :
              chunks[k].chunk = substring(text, chunks[k].startIndex, WindowEnd(k))

\* C4 witness: a document split into three windows
C4_Witness == pc = "split_done" /\ Len(chunks) >= 3

\* C14, as stated: every document of at most chunkSize characters, the empty
\* one included, is split into exactly one window, which holds the whole
\* document and starts at offset 0.
C14_ShortDocumentOneWindow ==
    (pc = "split_done" /\ Len(text) <= chunkSize)
    => chunks = <<[chunk |-> text, startIndex |-> 0]>>

\* C14, amended: every non-empty document of at most chunkSize characters is
\* split into exactly one window, which holds the whole document and starts
\* at offset 0; the empty document is split into no window at all.
C14_ShortNonEmptyDocumentOneWindow ==
    (pc = "split_done" /\ Len(text) <= chunkSize)
    => chunks = IF text = <<>> THEN <<>> ELSE <<[chunk |-> text, startIndex |-> 0]>>

\* C14 witness: a document of exactly chunkSize characters, in one window
C14_Witness ==
    /\ pc = "split_done"
    /\ Len(text) = chunkSize
    /\ chunks = <<[chunk |-> text, startIndex |-> 0]>>

\* C23: every window ends at min(start + chunkSize, len(document)), the next
\* window starts overlapSize before that end, and every window but the last
\* has exactly chunkSize characters, so that consecutive windows share
\* exactly overlapSize characters.
C23_WindowArithmetic ==
    pc = "split_done" =>
        /\ \A k \in 1..Len(chunks) :
              WindowEnd(k) = Min(chunks[k].startIndex + chunkSize, Len(text))
        /\ \A k \in 1..(Len(chunks) - 1) :
              /\ chunks[k + 1].startIndex = WindowEnd(k) - overlapSize
              /\ Len(chunks[k].chunk) = chunkSize
              /\ substring(chunks[k].chunk, chunkSize - overlapSize, chunkSize)
                    = substring(chunks[k + 1].chunk, 0, overlapSize)

\* C23 witness: three windows of 2 characters that overlap by 1
C23_Witness ==
    /\ pc = "split_done"
    /\ chunkSize = 2 /\ overlapSize = 1
    /\ Len(chunks) = 3
    /\ chunks[2].startIndex = 1 /\ chunks[3].startIndex = 2
    /\ \A k \in 1..3 : Len(chunks[k].chunk) = 2

(***************************************************************************)
(* SpecChunkLoop: the loop of splitTextIntoChunks (lines 61-78) taken one   *)
(* iteration at a time, on every document and with every pair of sizes     *)
(* from 0 to MaxChunkSize, the invalid ones included.  The source has no    *)
(* check of CHUNK_SIZE and OVERLAP_SIZE, so there is no action for one.  A  *)
(* loop that does not end is cut off after MaxTextLen + 1 windows, which    *)
(* is more than a valid configuration produces.                             *)
(***************************************************************************)
AllConfigs == (0..MaxChunkSize) \X (0..MaxChunkSize)

InitChunkLoop ==
    /\ pc = "chunk_loop"
    /\ text \in Documents
    /\ \E c \in AllConfigs : chunkSize = c[1] /\ overlapSize = c[2]
    /\ chunks = <<>>
    /\ startIndex = 0
    /\ i = 0
    /\ allTerms = <<>>
    /\ result = NoResult
    /\ progress = <<>>
    /\ calls = <<>>
    /\ kinds = <<>>
    /\ windowTerms = <<>>
    /\ chunk = <<>>
    /\ content = NoResult
    /\ chunkTerms = <<>>
    /\ path = "none"
    /\ OuterInit

\* An iteration that is entered while startIndex <= text.length
ChunkIteration_inclusive ==
    /\ pc = "chunk_loop"
    /\ startIndex <= Len(text)
    /\ Len(chunks) <= MaxTextLen
    /\ LET endIndex == Min(startIndex + chunkSize, Len(text))
       IN /\ chunks' = Append(chunks, [chunk |-> substring(text, startIndex, endIndex),
                                        startIndex |-> startIndex])
          /\ IF endIndex >= Len(text)
                THEN pc' = "chunk_done" /\ UNCHANGED startIndex
                ELSE pc' = "chunk_loop" /\ startIndex' = NextStart(endIndex, overlapSize)
    /\ UNCHANGED <<text, chunkSize, overlapSize, i, allTerms, result, progress, calls,
                   kinds, windowTerms, chunk, content, chunkTerms, path>>
    /\ UNCHANGED outerVars

\* lines 64-76: one iteration of the while loop
ChunkIteration ==
    /\ pc = "chunk_loop"
    /\ startIndex < Len(text)
    /\ Len(chunks) <= MaxTextLen
    /\ LET endIndex == Min(startIndex + chunkSize, Len(text))
       IN /\ chunks' = Append(chunks, [chunk |-> substring(text, startIndex, endIndex),
                                        startIndex |-> startIndex])
          /\ IF endIndex >= Len(text)
                THEN pc' = "chunk_done" /\ UNCHANGED startIndex
                ELSE pc' = "chunk_loop" /\ startIndex' = NextStart(endIndex, overlapSize)
    /\ UNCHANGED <<text, chunkSize, overlapSize, i, allTerms, result, progress, calls,
                   kinds, windowTerms, chunk, content, chunkTerms, path>>
    /\ UNCHANGED outerVars

\* lines 64 and 78: the loop condition is false, and chunks is returned
ChunkLoopExit ==
    /\ pc = "chunk_loop"
    /\ ~(startIndex < Len(text))
    /\ pc' = "chunk_done"
    /\ UNCHANGED <<text, chunkSize, overlapSize, chunks, startIndex, i, allTerms, result,
                   progress, calls, kinds, windowTerms, chunk, content, chunkTerms, path>>
    /\ UNCHANGED outerVars

NextChunkLoop == ChunkIteration \/ ChunkLoopExit

SpecChunkLoop == InitChunkLoop /\ [][NextChunkLoop]_vars

\* SpecChunkLoopFair: the loop of SpecChunkLoop, which goes on as long as it
\* can: the function runs to its end without being interrupted
SpecChunkLoopFair == InitChunkLoop /\ [][NextChunkLoop]_vars /\ WF_vars(NextChunkLoop)

\* The sizes are a valid configuration
ValidConfig == 0 < overlapSize /\ overlapSize < chunkSize

\* The windows that end at the end of the document
EndingWindows == {k \in 1..Len(chunks) : WindowEnd(k) = Len(text)}

\* No window emitted so far is empty, and if the chunker has returned, one
\* window ends at the end of the document, and it is the last one
LastWindowAtEnd ==
    /\ \A k \in 1..Len(chunks) : chunks[k].chunk # <<>>
    /\ pc = "chunk_done" => EndingWindows = {Len(chunks)} /\ Len(chunks) >= 1

\* C24, as stated: for every document and every valid configuration the
\* chunker terminates, the one window that ends at the end of the document
\* is the last one emitted, and no emitted window is empty.
C24_TerminatesLastWindowAtEnd ==
    /\ ValidConfig => <>(pc = "chunk_done")
    /\ [](ValidConfig => LastWindowAtEnd)

\* C24, amended: for every document and every valid configuration the
\* chunker terminates and no emitted window is empty; for a non-empty
\* document the one window that ends at the end of the document is the last
\* one emitted, and for the empty document no window is emitted.
C24_TerminatesLastWindowAtEndIfAny ==
    /\ ValidConfig => <>(pc = "chunk_done")
    /\ [](ValidConfig => IF text = <<>> THEN chunks = <<>> ELSE LastWindowAtEnd)

\* C24 witness: the chunker has returned three windows, the third of which
\* is the only one to end at the end of the document
C24_Witness ==
    /\ pc = "chunk_done"
    /\ ValidConfig
    /\ Len(chunks) = 3
    /\ EndingWindows = {3}

\* The sizes are an invalid configuration
InvalidConfig == overlapSize >= chunkSize \/ chunkSize <= 0

MkTerm(termText, conf, pos) ==
    [term |-> termText,
     context |-> JStr(<<>>),
     position_start |-> pos,
     position_end |-> pos + Len(termText),
     possible_meanings |-> JArr(<<>>),
     likely_intended_meaning |-> JStr(<<>>),
     confidence |-> JNum(conf)]

MergeTerms ==
    {MkTerm(tt, conf, pos) : tt \in {<<"a">>, <<"A">>, <<"b">>, <<"c">>},
                             conf \in {60, 85},
                             pos \in {10, 150, 300}}

RECURSIVE SeqsUpTo(_, _)
SeqsUpTo(S, n) ==
    IF n = 0 THEN {<<>>}
    ELSE LET shorter == SeqsUpTo(S, n - 1)
         IN shorter \cup {Append(s, x) : s \in shorter, x \in S}

InitMerge ==
    /\ pc = "merge"
    /\ allTerms \in SeqsUpTo(MergeTerms, MaxMergeLen)
    /\ text = <<>>
    /\ chunkSize = CHUNK_SIZE
    /\ overlapSize = OVERLAP_SIZE
    /\ chunks = <<>>
    /\ i = 0
    /\ result = NoResult
    /\ progress = <<>>
    /\ calls = <<>>
    /\ kinds = <<>>
    /\ windowTerms = <<>>
    /\ chunk = <<>>
    /\ startIndex = 0
    /\ content = NoResult
    /\ chunkTerms = <<>>
    /\ path = "none"
    /\ OuterInit

Merge ==
    /\ pc = "merge"
    /\ result' = mergeTerms(allTerms)
    /\ pc' = "merge_done"
    /\ UNCHANGED <<text, chunkSize, overlapSize, chunks, i, allTerms, progress,
                   calls, kinds, windowTerms>>
    /\ UNCHANGED chunkCallVars
    /\ UNCHANGED outerVars

NextMerge == Merge

SpecMerge == InitMerge /\ [][NextMerge]_vars

\* mergeTerms has returned: called alone, or as the last step of analyzeText
Returned == pc \in {"merge_done", "resolved"}

\* The indexes of the input Terms that share the lowercased key of Term r
SameKey(r) == {x \in 1..Len(allTerms) : toLowerCase(allTerms[x].term) = toLowerCase(r.term)}

\* C1: no two output Terms of mergeTerms have the same lowercased term, and
\* the lowercased term of every input Term occurs in the output exactly once;
\* so it is of the list analyzeText resolves to, which is mergeTerms(allTerms).
C1_OneTermPerKey ==
    Returned =>
        /\ \A j, k \in 1..Len(result) :
              j # k => toLowerCase(result[j].term) # toLowerCase(result[k].term)
        /\ \A x \in 1..Len(allTerms) :
              Cardinality({k \in 1..Len(result) :
                  toLowerCase(result[k].term) = toLowerCase(allTerms[x].term)}) = 1

\* C1 witness: two input Terms that differ in case only, and another key
C1_Witness ==
    /\ pc = "merge_done"
    /\ Len(result) = 2
    /\ \E x, y \in 1..Len(allTerms) :
          /\ allTerms[x].term # allTerms[y].term
          /\ toLowerCase(allTerms[x].term) = toLowerCase(allTerms[y].term)

\* The index of the input Term of r's key that mergeTerms is to keep: the
\* first one among those of the highest confidence
FirstBest(r) ==
    LET same == SameKey(r)
        best == {x \in same : \A y \in same :
                    allTerms[x].confidence.n >= allTerms[y].confidence.n}
    IN CHOOSE x \in best : \A y \in best : x <= y

\* C2: of the input Terms of one key mergeTerms keeps the one of the highest
\* confidence, and of several of the highest confidence the first in the input.
C2_HighestConfidenceFirstSeen ==
    pc = "merge_done" =>
        \A k \in 1..Len(result) : result[k] = allTerms[FirstBest(result[k])]

\* C2 witness: a key whose highest confidence is held by two different input
\* Terms, after one of lower confidence
C2_Witness ==
    /\ pc = "merge_done"
    /\ \E x, y, z \in 1..Len(allTerms) :
          /\ x < y /\ y < z
          /\ SameKey(allTerms[x]) = {x, y, z}
          /\ allTerms[x].confidence.n < allTerms[y].confidence.n
          /\ allTerms[y].confidence.n = allTerms[z].confidence.n
          /\ allTerms[y] # allTerms[z]
          /\ result = <<allTerms[y]>>

\* C3: the list mergeTerms returns, and so the list analyzeText resolves to,
\* is ordered ascending by position_start.
C3_OrderedByPosition ==
    Returned =>
        \A k \in 1..(Len(result) - 1) :
            result[k].position_start <= result[k + 1].position_start

\* C3 witness: three Terms of distinct keys at 300, 10, 150 come out as 10, 150, 300
C3_Witness ==
    /\ pc = "merge_done"
    /\ Len(allTerms) = 3
    /\ [k \in 1..3 |-> allTerms[k].position_start] = <<300, 10, 150>>
    /\ Len(result) = 3
    /\ [k \in 1..3 |-> result[k].position_start] = <<10, 150, 300>>

(***************************************************************************)
(* The payloads of the model.  A raw record is an object whose term is one *)
(* of TermValues and whose other fields are one of Variants.               *)
(***************************************************************************)
Rec(term, context, meanings, intended, alias, confidence) ==
    JObj([EmptyObject EXCEPT !["term"] = term,
                             !["context"] = context,
                             !["possible_meanings"] = meanings,
                             !["likely_intended_meaning"] = intended,
                             !["likely_meaning"] = alias,
                             !["confidence"] = confidence])

\* One {field, definition} pair, which the code passes along unread
Meaning == [t |-> "object", o |-> [field |-> JStr(<<"b">>), definition |-> JStr(<<"m">>)]]

TermValues ==
    {JUndef, JStr(<<>>), JStr(<<"a">>), JStr(<<"A">>), JStr(<<"b">>), JNum(5)}

\* <<context, possible_meanings, likely_intended_meaning, likely_meaning, confidence>>
Variants ==
    {<<JStr(<<"c">>), JArr(<<Meaning>>), JStr(<<"m">>), JUndef, JNum(70)>>,
     <<JUndef, JUndef, JUndef, JStr(<<"k">>), JNum(90)>>,
     <<JUndef, JUndef, JUndef, JUndef, JUndef>>,
     <<JNull, JArr(<<>>), JStr(<<>>), JStr(<<"k">>), JStr(<<"h">>)>>,
     <<JUndef, JUndef, JUndef, JUndef, JNum(150)>>}

AnalyzeRecords ==
    {Rec(tv, v[1], v[2], v[3], v[4], v[5]) : tv \in TermValues, v \in Variants}

\* The four shapes analyzeChunk recognizes
ShapeTerms(list) == JObj([EmptyObject EXCEPT !["terms"] = JArr(list)])
ShapeAmbiguous(list) == JObj([EmptyObject EXCEPT !["ambiguous_terms"] = JArr(list)])
ShapeArray(list) == JArr(list)
ShapeBare(r) == r

\* Payloads of other kinds: null, a number, {}, {"terms": "a"}, [null]
OtherPayloads ==
    {JNull, JNum(5), JObj(EmptyObject),
     JObj([EmptyObject EXCEPT !["terms"] = JStr(<<"a">>)]),
     JArr(<<JNull>>)}

\* Objects that have several of the shapes at once: a term field or none, a
\* terms field that is missing, a string, [] or a list of one record, and an
\* ambiguous_terms field that is missing or a list of one record
MixedPayloads ==
    {JObj([EmptyObject EXCEPT !["term"] = tm, !["terms"] = ts, !["ambiguous_terms"] = am]) :
        tm \in {JUndef, JStr(<<"b">>)},
        ts \in {JUndef, JStr(<<"a">>), JArr(<<>>),
                JArr(<<Rec(JStr(<<"a">>), JUndef, JUndef, JUndef, JUndef, JNum(70))>>)},
        am \in {JUndef,
                JArr(<<Rec(JStr(<<"A">>), JUndef, JUndef, JUndef, JUndef, JNum(90))>>)}}

AnalyzePayloads ==
    LET lists == SeqsUpTo(AnalyzeRecords, MaxRecords)
    IN {ShapeTerms(l) : l \in lists} \cup {ShapeAmbiguous(l) : l \in lists}
       \cup {ShapeArray(l) : l \in lists} \cup {ShapeBare(r) : r \in AnalyzeRecords}
       \cup OtherPayloads \cup MixedPayloads

AnalyzeResponses ==
    {Rejected, NoChoices, JNull, EmptyText, GarbageText}
    \cup {JsonText(v) : v \in AnalyzePayloads}

(***************************************************************************)
(* SpecAnalyze: one call of analyzeChunk, on every chunk of at most        *)
(* MaxChunkLen characters, at offset 0 and at a later offset, with every   *)
(* response of AnalyzeResponses.                                           *)
(***************************************************************************)
InitAnalyze ==
    /\ pc = "analyze"
    /\ chunk \in StringsUpTo(Chars, MaxChunkLen)
    /\ startIndex \in {0, 2}
    /\ content \in AnalyzeResponses
    /\ chunkTerms = <<>>
    /\ path = "none"
    /\ text = <<>>
    /\ chunkSize = CHUNK_SIZE
    /\ overlapSize = OVERLAP_SIZE
    /\ chunks = <<>>
    /\ i = 0
    /\ allTerms = <<>>
    /\ result = NoResult
    /\ progress = <<>>
    /\ calls = <<>>
    /\ kinds = <<>>
    /\ windowTerms = <<>>
    /\ OuterInit

AnalyzeChunk ==
    /\ pc = "analyze"
    /\ LET run == analyzeChunkRun(content, chunk, startIndex)
       IN /\ chunkTerms' = run.terms
          /\ path' = run.path
          /\ pc' = IF run.path = "threw" THEN "analyze_threw" ELSE "analyze_returned"
    /\ UNCHANGED <<chunk, startIndex, content>>
    /\ UNCHANGED driverVars
    /\ UNCHANGED outerVars

NextAnalyze == AnalyzeChunk

SpecAnalyze == InitAnalyze /\ [][NextAnalyze]_vars

\* Whether term occurs in window w at index j, compared case-insensitively
OccursAt(term, w, j) ==
    /\ j + Len(term) <= Len(w)
    /\ toLowerCase(substring(w, j, j + Len(term))) = toLowerCase(term)

Occurrences(term, w) == {j \in 0..Len(w) : OccursAt(term, w, j)}

\* C5: a reported term that occurs in the window's text, compared
\* case-insensitively, gets position_start = startIndex + the index of its
\* first occurrence, and position_end = position_start + length(term).
C5_FirstOccurrenceSpan ==
    pc = "analyze_returned" =>
        \A k \in 1..Len(chunkTerms) :
            LET occ == Occurrences(chunkTerms[k].term, chunk)
            IN occ # {} =>
                 /\ chunkTerms[k].position_start
                        = startIndex + (CHOOSE j \in occ : \A h \in occ : j <= h)
                 /\ chunkTerms[k].position_end
                        = chunkTerms[k].position_start + Len(chunkTerms[k].term)

\* C6: no Term is produced with offsets computed from a failed search:
\* position_start is never negative and never startIndex - 1.
C6_NoOffsetFromMiss ==
    pc = "analyze_returned" =>
        \A k \in 1..Len(chunkTerms) :
            /\ chunkTerms[k].position_start >= 0
            /\ chunkTerms[k].position_start # startIndex - 1

\* Whether raw record r has a term field that holds a string
HasTermField(r) == Get(r, "term").t = "string"

\* C10: for a record r that has a term field, analyzeChunk returns the same
\* single candidate whichever of the four shapes {"terms":[r]},
\* {"ambiguous_terms":[r]}, [r] and r the payload has.
C10_FourShapesOneCandidate ==
    pc = "analyze_returned" =>
        \A r \in AnalyzeRecords :
            (/\ HasTermField(r)
             /\ content \in {JsonText(ShapeTerms(<<r>>)), JsonText(ShapeAmbiguous(<<r>>)),
                             JsonText(ShapeArray(<<r>>)), JsonText(ShapeBare(r))})
            => /\ Len(chunkTerms) = 1
               /\ chunkTerms = analyzeChunkRun(JsonText(ShapeTerms(<<r>>)), chunk, startIndex).terms

\* Whether parsed value v has none of the shapes: not a list, no list under
\* terms or ambiguous_terms, no term field
NoShape(v) ==
    /\ ~IsArray(v)
    /\ Get(v, "terms").t # "array"
    /\ Get(v, "ambiguous_terms").t # "array"
    /\ Get(v, "term") = JUndef

\* C11: a payload that parses to a value of none of the recognized shapes
\* makes analyzeChunk take its error path, where the failure is reported; it
\* is not taken for a payload of zero records.
C11_NoShapeIsAnError ==
    (/\ pc = "analyze_returned"
     /\ content.t = "string" /\ content.text = "json"
     /\ NoShape(content.value))
    => path = "caught"

\* The raw records of parsed payload v, by the shape it has
RawRecords(v) ==
    IF v.t = "array" THEN v.a
    ELSE IF Get(v, "terms").t = "array" THEN Get(v, "terms").a
    ELSE IF Get(v, "ambiguous_terms").t = "array" THEN Get(v, "ambiguous_terms").a
    ELSE <<v>>

\* analyzeChunk has parsed the payload and mapped its records
Mapped == pc = "analyze_returned" /\ path = "mapped"

\* A field that the record does not hold: undefined, or JSON null
Absent(x) == x.t \in {"undefined", "null"}

\* The Term built from raw record r, where miss(x) says which field values
\* count as missing: term and context default to "", possible_meanings to
\* [], likely_intended_meaning to likely_meaning and then to ""; a value
\* that is not missing is passed through unchanged
DefaultsApplied(r, t, miss(_)) ==
    /\ JStr(t.term) = (IF miss(Get(r, "term")) THEN JStr(<<>>) ELSE Get(r, "term"))
    /\ t.context = (IF miss(Get(r, "context")) THEN JStr(<<>>) ELSE Get(r, "context"))
    /\ t.possible_meanings = (IF miss(Get(r, "possible_meanings")) THEN JArr(<<>>)
                              ELSE Get(r, "possible_meanings"))
    /\ t.likely_intended_meaning =
          (IF ~miss(Get(r, "likely_intended_meaning")) THEN Get(r, "likely_intended_meaning")
           ELSE IF ~miss(Get(r, "likely_meaning")) THEN Get(r, "likely_meaning")
           ELSE JStr(<<>>))

Falsy(x) == ~Truthy(x)

C13_NonNumericConfidenceIsZero ==
    Mapped =>
        LET raw == RawRecords(content.value)
        IN \A k \in 1..Len(raw) :
              (k <= Len(chunkTerms) /\ Get(raw[k], "confidence").t # "number")
              => chunkTerms[k].confidence = JNum(0)

(***************************************************************************)
(* Spec: analyzeText (lines 227-248) on the documents of PipelineDocs,     *)
(* the API call of each chunk ending in one of PipelineResponses.          *)
(***************************************************************************)
\* The first n characters of the endless repetition of pattern
Corpus(pattern, n) == [k \in 1..n |-> pattern[((k - 1) % Len(pattern)) + 1]]

PipelineDocs ==
    {Corpus(<<"a", "b", "A", "b">>, n) : n \in 0..MaxTextLen}
    \cup {Corpus(<<"b", "U0130", "a">>, n) : n \in 0..MaxTextLen}

PipelineRecords ==
    {Rec(JStr(<<"a">>), JStr(<<"c">>), JArr(<<Meaning>>), JStr(<<"m">>), JUndef, JNum(70)),
     Rec(JStr(<<"A">>), JUndef, JUndef, JUndef, JStr(<<"k">>), JNum(90)),
     Rec(JStr(<<"b">>), JUndef, JUndef, JUndef, JUndef, JNum(70))}

PipelineResponses ==
    {Rejected, NoChoices, JNull, GarbageText, JsonText(JObj(EmptyObject))}
    \cup {JsonText(ShapeTerms(l)) : l \in SeqsUpTo(PipelineRecords, MaxRecords)}
    \cup {JsonText(ShapeArray(l)) : l \in SeqsUpTo(PipelineRecords, MaxRecords)}
    \cup {JsonText(ShapeBare(r)) : r \in PipelineRecords}

\* The document of the worked example: 7000 characters, of which the one at
\* offset 2900 is the only "a"
ExampleDoc == [k \in 1..7000 |-> IF k = 2901 THEN "a" ELSE "b"]

\* The responses enumerated on a window of the worked example: the call is
\* rejected, or its payload lists no record or one of PipelineRecords
ExampleResponses ==
    {Rejected, JsonText(ShapeTerms(<<>>))}
    \cup {JsonText(ShapeTerms(<<r>>)) : r \in PipelineRecords}

\* The responses enumerated for the API call of a window of document t
Responses(t) == IF t = ExampleDoc THEN ExampleResponses ELSE PipelineResponses

\* What the API call came to, as the classifier's side sees it
ResponseKind(resp) ==
    CASE resp.t = "rejected" -> "rejected"
      [] resp.t = "nochoices" -> "nochoices"
      [] resp.t = "null" -> "empty"
      [] resp.text = "empty" -> "empty"
      [] resp.text = "garbage" -> "garbage"
      [] OTHER ->
            LET v == resp.value
            IN IF v.t = "array" \/ (v.t = "object" /\
                    (v.o["terms"].t = "array" \/ v.o["ambiguous_terms"].t = "array"
                     \/ v.o["term"] # JUndef))
               THEN "json" ELSE "unrecognized"

Init ==
    /\ pc = "idle"
    /\ text \in PipelineDocs
    /\ \E c \in ValidConfigs(MaxChunkSize) : chunkSize = c[1] /\ overlapSize = c[2]
    /\ chunks = <<>>
    /\ i = 0
    /\ allTerms = <<>>
    /\ result = NoResult
    /\ progress = <<>>
    /\ calls = <<>>
    /\ kinds = <<>>
    /\ windowTerms = <<>>
    /\ chunk = <<>>
    /\ startIndex = 0
    /\ content = NoResult
    /\ chunkTerms = <<>>
    /\ path = "none"
    /\ OuterInit

\* lines 231-232: analyzeText is called
Start ==
    /\ pc = "idle"
    /\ chunks' = splitTextIntoChunks(text, chunkSize, overlapSize)
    /\ allTerms' = <<>>
    /\ i' = 0
    /\ pc' = "loop"
    /\ UNCHANGED <<text, chunkSize, overlapSize, result, progress, calls, kinds,
                   windowTerms>>
    /\ UNCHANGED chunkCallVars
    /\ UNCHANGED outerVars

\* A progress report that counts the windows from 0
Report_fromZero ==
    /\ pc = "loop"
    /\ i < Len(chunks)
    /\ progress' = Append(progress, <<i, Len(chunks)>>)
    /\ pc' = "call"
    /\ UNCHANGED <<text, chunkSize, overlapSize, chunks, i, allTerms, result, calls,
                   kinds, windowTerms>>
    /\ UNCHANGED chunkCallVars
    /\ UNCHANGED outerVars

\* lines 235-241: an iteration begins, and reports progress through the
\* onProgress callback (which the model takes to be given)
Report ==
    /\ pc = "loop"
    /\ i < Len(chunks)
    /\ progress' = Append(progress, <<i + 1, Len(chunks)>>)
    /\ pc' = "call"
    /\ UNCHANGED <<text, chunkSize, overlapSize, chunks, i, allTerms, result, calls,
                   kinds, windowTerms>>
    /\ UNCHANGED chunkCallVars
    /\ UNCHANGED outerVars

\* A loop that submits all the windows left without awaiting any
Submit_all ==
    /\ pc = "call"
    /\ chunk' = chunks[i + 1].chunk
    /\ startIndex' = chunks[i + 1].startIndex
    /\ calls' = calls \o [k \in 1..(Len(chunks) - i) |-> i + k]
    /\ pc' = "await"
    /\ UNCHANGED <<text, chunkSize, overlapSize, chunks, i, allTerms, result, progress,
                   kinds, windowTerms>>
    /\ UNCHANGED <<content, chunkTerms, path>>
    /\ UNCHANGED outerVars

\* line 243 and lines 92-137: analyzeChunk is called with the chunk and its
\* start index, and submits the chunk to the API
Submit ==
    /\ pc = "call"
    /\ chunk' = chunks[i + 1].chunk
    /\ startIndex' = chunks[i + 1].startIndex
    /\ calls' = Append(calls, i + 1)
    /\ pc' = "await"
    /\ UNCHANGED <<text, chunkSize, overlapSize, chunks, i, allTerms, result, progress,
                   kinds, windowTerms>>
    /\ UNCHANGED <<content, chunkTerms, path>>
    /\ UNCHANGED outerVars

\* An analyzeText that submits a window again when its call has thrown
ChunkRejects_retried ==
    /\ pc = "await"
    /\ \E resp \in Responses(text) :
          /\ analyzeChunkRun(resp, chunk, startIndex).path = "threw"
          /\ kinds' = Append(kinds, ResponseKind(resp))
    /\ pc' = "call"
    /\ UNCHANGED <<text, chunkSize, overlapSize, chunks, i, allTerms, result, progress,
                   calls, windowTerms>>
    /\ UNCHANGED chunkCallVars
    /\ UNCHANGED outerVars

\* An analyzeText that catches the error of a window and goes on to the next
ChunkRejects_swallowed ==
    /\ pc = "await"
    /\ \E resp \in Responses(text) :
          /\ analyzeChunkRun(resp, chunk, startIndex).path = "threw"
          /\ kinds' = Append(kinds, ResponseKind(resp))
    /\ windowTerms' = Append(windowTerms, <<>>)
    /\ i' = i + 1
    /\ pc' = "loop"
    /\ UNCHANGED <<text, chunkSize, overlapSize, chunks, allTerms, result, progress, calls>>
    /\ UNCHANGED chunkCallVars
    /\ UNCHANGED outerVars

\* line 243: the awaited analyzeChunk throws, and analyzeText's promise rejects
ChunkRejects ==
    /\ pc = "await"
    /\ \E resp \in Responses(text) :
          /\ analyzeChunkRun(resp, chunk, startIndex).path = "threw"
          /\ kinds' = Append(kinds, ResponseKind(resp))
    /\ pc' = "rejected"
    /\ UNCHANGED <<text, chunkSize, overlapSize, chunks, i, allTerms, result, progress,
                   calls, windowTerms>>
    /\ UNCHANGED chunkCallVars
    /\ UNCHANGED outerVars

\* A loop that puts the terms of a window before those of the earlier windows
ChunkResolves_prepended ==
    /\ pc = "await"
    /\ \E resp \in Responses(text) :
          LET run == analyzeChunkRun(resp, chunk, startIndex)
          IN /\ run.path # "threw"
             /\ allTerms' = run.terms \o allTerms
             /\ windowTerms' = Append(windowTerms, run.terms)
             /\ kinds' = Append(kinds, ResponseKind(resp))
    /\ i' = i + 1
    /\ pc' = "loop"
    /\ UNCHANGED <<text, chunkSize, overlapSize, chunks, result, progress, calls>>
    /\ UNCHANGED chunkCallVars
    /\ UNCHANGED outerVars

\* lines 243-244: the awaited analyzeChunk returns its terms, which are pushed
ChunkResolves ==
    /\ pc = "await"
    /\ \E resp \in Responses(text) :
          LET run == analyzeChunkRun(resp, chunk, startIndex)
          IN /\ run.path # "threw"
             /\ allTerms' = allTerms \o run.terms
             /\ windowTerms' = Append(windowTerms, run.terms)
             /\ kinds' = Append(kinds, ResponseKind(resp))
    /\ i' = i + 1
    /\ pc' = "loop"
    /\ UNCHANGED <<text, chunkSize, overlapSize, chunks, result, progress, calls>>
    /\ UNCHANGED chunkCallVars
    /\ UNCHANGED outerVars

\* line 247: the loop is over, and the promise resolves to mergeTerms(allTerms)
Finish ==
    /\ pc = "loop"
    /\ ~(i < Len(chunks))
    /\ result' = mergeTerms(allTerms)
    /\ pc' = "resolved"
    /\ UNCHANGED <<text, chunkSize, overlapSize, chunks, i, allTerms, progress, calls,
                   kinds, windowTerms>>
    /\ UNCHANGED chunkCallVars
    /\ UNCHANGED outerVars

Next == Start \/ Report \/ Submit \/ ChunkRejects \/ ChunkResolves \/ Finish

Spec == Init /\ [][Next]_vars

(***************************************************************************)
(* SpecExampleAndRuns: the runs of Spec together with the runs of          *)
(* analyzeText on ExampleDoc with the sizes of the source.                 *)
(***************************************************************************)
InitExample ==
    /\ pc = "idle"
    /\ text = ExampleDoc
    /\ chunkSize = CHUNK_SIZE
    /\ overlapSize = OVERLAP_SIZE
    /\ chunks = <<>>
    /\ i = 0
    /\ allTerms = <<>>
    /\ result = NoResult
    /\ progress = <<>>
    /\ calls = <<>>
    /\ kinds = <<>>
    /\ windowTerms = <<>>
    /\ chunk = <<>>
    /\ startIndex = 0
    /\ content = NoResult
    /\ chunkTerms = <<>>
    /\ path = "none"
    /\ OuterInit

SpecExampleAndRuns == (InitExample \/ Init) /\ [][Next]_vars

(***************************************************************************)
(* SpecMergeAndRuns: the calls of mergeTerms of SpecMerge together with    *)
(* the runs of analyzeText of Spec, where mergeTerms gets the terms that   *)
(* analyzeChunk produced.                                                  *)
(***************************************************************************)
SpecMergeAndRuns == (InitMerge \/ Init) /\ [][NextMerge \/ Next]_vars

RECURSIVE Flatten(_)
Flatten(ss) == IF ss = <<>> THEN <<>> ELSE Head(ss) \o Flatten(Tail(ss))

\* C7: when the API call of a window throws, analyzeText rejects: no Term
\* list is returned, mergeTerms is not run, and the failing window is the
\* last one submitted.
C7_ThrowFailsWholeRun ==
    \A k \in 1..Len(kinds) :
        kinds[k] \in {"rejected", "nochoices"} =>
            /\ pc = "rejected"
            /\ result = NoResult
            /\ k = Len(kinds)
            /\ calls = [j \in 1..k |-> j]

\* C7 witness: the call of window 2 of 3 throws after window 1 gave a term
C7_Witness ==
    /\ pc = "rejected"
    /\ Len(chunks) = 3
    /\ Len(kinds) = 2
    /\ kinds[2] = "rejected"
    /\ allTerms # <<>>

\* C8: a window whose payload cannot be parsed contributes zero terms, the
\* windows after it are analysed, and the result is the merge of the terms
\* of the other windows.
C8_UnparseableWindowSkipped ==
    /\ \A k \in 1..Len(kinds) :
          kinds[k] = "garbage" => (k <= Len(windowTerms) /\ windowTerms[k] = <<>>)
    /\ pc = "resolved" =>
          /\ calls = [j \in 1..Len(chunks) |-> j]
          /\ Len(kinds) = Len(chunks)
          /\ result = mergeTerms(Flatten(
                [k \in 1..Len(kinds) |-> IF kinds[k] = "garbage" THEN <<>>
                                         ELSE windowTerms[k]]))

\* C8 witness: window 2 of 3 is unparseable, windows 1 and 3 give terms
C8_Witness ==
    /\ pc = "resolved"
    /\ Len(chunks) = 3
    /\ kinds = <<"json", "garbage", "json">>
    /\ windowTerms[1] # <<>>
    /\ windowTerms[3] # <<>>
    /\ result # <<>>

\* C9: no run in which a window's analysis failed (empty response,
\* unparseable or unrecognized payload) resolves to the empty list, which is
\* what a successful analysis that found no terms resolves to.
C9_NoSilentEmptyOnFailure ==
    (/\ pc = "resolved"
     /\ \E k \in 1..Len(kinds) : kinds[k] \in {"empty", "garbage", "unrecognized"})
    => result # <<>>

\* Side conditions of C5 and C10, which bound what the counterexamples show.

\* On a window without U+0130 the span analyzeChunk gives a term that occurs
\* is that of its first case-insensitive occurrence.
FirstOccurrenceSpanWithoutU0130 ==
    (pc = "analyze_returned" /\ \A p \in 1..Len(chunk) : chunk[p] # "U0130")
    => C5_FirstOccurrenceSpan

\* For a record whose term is a non-empty string the four shapes give the
\* same single candidate.
FourShapesOneCandidateForNonEmptyTerm ==
    pc = "analyze_returned" =>
        \A r \in AnalyzeRecords :
            (/\ HasTermField(r) /\ Get(r, "term").s # <<>>
             /\ content \in {JsonText(ShapeTerms(<<r>>)), JsonText(ShapeAmbiguous(<<r>>)),
                             JsonText(ShapeArray(<<r>>)), JsonText(ShapeBare(r))})
            => /\ Len(chunkTerms) = 1
               /\ chunkTerms = analyzeChunkRun(JsonText(ShapeTerms(<<r>>)), chunk, startIndex).terms

\* C15: in every run of analyzeText the windows submitted so far are windows
\* 1, 2, ... in order, each once, so that no window is submitted twice and a
\* call that failed is not made again; the call under way has the text and
\* the offset of its own window as its arguments; and a run that resolves
\* has submitted every window of the chunker exactly once.
C15_OneCallPerWindow ==
    /\ calls = [k \in 1..Len(calls) |-> k]
    /\ Len(calls) <= Len(chunks)
    /\ pc \in {"await", "rejected"} =>
          /\ chunk = chunks[calls[Len(calls)]].chunk
          /\ startIndex = chunks[calls[Len(calls)]].startIndex
          /\ chunk = substring(text, startIndex, startIndex + Len(chunk))
    /\ pc = "rejected" => Len(kinds) = Len(calls)
    /\ pc = "resolved" => Len(calls) = Len(chunks)

\* C15 witness: a run over three windows that resolved after three calls
C15_Witness ==
    /\ pc = "resolved"
    /\ Len(chunks) = 3
    /\ calls = <<1, 2, 3>>
    /\ kinds = <<"json", "json", "json">>

\* C16: the progress reports made so far are <<1, n>>, <<2, n>>, ... in
\* order, n being the number of windows: one for each window started, made
\* before the window's call, so that there are as many reports as calls, or
\* one more while the call of the last reported window is still to be made.
C16_ProgressCountsWindows ==
    /\ progress = [k \in 1..Len(progress) |-> <<k, Len(chunks)>>]
    /\ Len(progress) <= Len(chunks)
    /\ Len(progress) = Len(calls) + (IF pc = "call" THEN 1 ELSE 0)
    /\ pc = "resolved" => Len(progress) = Len(chunks)

\* C16 witness: the third window of three has been reported and not yet called
C16_Witness ==
    /\ pc = "call"
    /\ progress = <<<<1, 3>>, <<2, 3>>, <<3, 3>>>>
    /\ calls = <<1, 2>>

\* The windows whose analysis returned Term t
SourceWindows(t) ==
    {w \in 1..Len(windowTerms) : \E k \in 1..Len(windowTerms[w]) : windowTerms[w][k] = t}

\* The position of Term t is unresolved: its term occurs in none of the
\* windows that reported it
Unresolved(t) ==
    \A w \in SourceWindows(t) : Occurrences(t.term, chunks[w].chunk) = {}

\* The place of Term t in the order of discovery
Discovery(t) == CHOOSE x \in 1..Len(allTerms) : allTerms[x] = t /\ \A y \in 1..(x - 1) : allTerms[y] # t

\* C17: in the list analyzeText resolves to, which mergeTerms ordered, no
\* Term of unresolved position comes before a Term of resolved position, and
\* the Terms of unresolved position are in their order of discovery.
C17_UnresolvedSortLast ==
    pc = "resolved" =>
        \A j, k \in 1..Len(result) :
            (j < k /\ Unresolved(result[j])) =>
                /\ Unresolved(result[k])
                /\ Discovery(result[j]) < Discovery(result[k])

WindowSpans == [k \in 1..Len(chunks) |-> <<chunks[k].startIndex, WindowEnd(k)>>]

\* Whether term occurs in the document inside the overlap of windows w and w + 1
InOverlap(term, w) ==
    \E p \in chunks[w + 1].startIndex..(WindowEnd(w) - Len(term)) : OccursAt(term, text, p)

\* The entries of the result under the key of Term t
ResultEntries(t) == {k \in 1..Len(result) : toLowerCase(result[k].term) = toLowerCase(t.term)}

\* C19: the document of 7000 characters is split, with the sizes 3000 and
\* 200 of the source, into the windows [0,3000), [2800,5800), [5600,7000),
\* and a run on it that resolves has analysed these three; and in every run
\* that resolves, when a term lying in the overlap of two adjacent windows is
\* reported by both with the confidences 70 and 90, the result has exactly
\* one entry for the term, and its confidence is 90.
C19_ThreeWindowsOverlapMerged ==
    /\ (text = ExampleDoc /\ pc # "idle") =>
          WindowSpans = <<<<0, 3000>>, <<2800, 5800>>, <<5600, 7000>>>>
    /\ (text = ExampleDoc /\ pc = "resolved") => calls = <<1, 2, 3>>
    /\ pc = "resolved" =>
          \A w \in 1..(Len(windowTerms) - 1) :
              \A x \in 1..Len(windowTerms[w]), y \in 1..Len(windowTerms[w + 1]) :
                  LET t == windowTerms[w][x]
                      u == windowTerms[w + 1][y]
                  IN (/\ toLowerCase(t.term) = toLowerCase(u.term)
                      /\ {t.confidence, u.confidence} = {JNum(70), JNum(90)}
                      /\ InOverlap(t.term, w))
                     => /\ Cardinality(ResultEntries(t)) = 1
                        /\ \A k \in ResultEntries(t) : result[k].confidence = JNum(90)

\* C19 witness: on the document of 7000 characters window 1 reports "a" at
\* 2900 with confidence 70 and window 2 reports "A" at 2900 with confidence
\* 90, and the run resolves to the one Term of window 2
C19_Witness ==
    /\ text = ExampleDoc
    /\ chunkSize = CHUNK_SIZE /\ overlapSize = OVERLAP_SIZE
    /\ pc = "resolved"
    /\ Len(chunks) = 3
    /\ Len(windowTerms[1]) = 1 /\ Len(windowTerms[2]) = 1 /\ Len(windowTerms[3]) = 0
    /\ windowTerms[1][1].term = <<"a">> /\ windowTerms[1][1].confidence = JNum(70)
    /\ windowTerms[2][1].term = <<"A">> /\ windowTerms[2][1].confidence = JNum(90)
    /\ windowTerms[1][1].position_start = 2900
    /\ windowTerms[2][1].position_start = 2900
    /\ result = <<windowTerms[2][1]>>

\* Side conditions of C20, which relate the loop of SpecChunkLoop to ChunkLoop.

\* Under a valid configuration the loop taken step by step ends with the
\* windows of splitTextIntoChunks.
StepwiseLoopAgrees ==
    (pc = "chunk_done" /\ ~InvalidConfig)
    => chunks = splitTextIntoChunks(text, chunkSize, overlapSize)

\* Under a valid configuration the loop is never cut off.
ValidConfigNeverCutOff ==
    (pc = "chunk_loop" /\ ~InvalidConfig) => Len(chunks) <= MaxTextLen

(***************************************************************************)
(* SpecCancel: the runs of Spec, during which the user may ask for the run *)
(* to be abandoned.  analyzeText (lines 227-230) takes the text and the    *)
(* progress callback and nothing through which such a wish could reach it, *)
(* and App shows no control while it is analyzing (part_000 lines           *)
(* 381-401): the wish changes nothing that the program reads.              *)
(***************************************************************************)
CancelRequest ==
    /\ pc \in {"loop", "call", "await"}
    /\ cancelledAfter = -1
    /\ cancelledAfter' = Len(calls)
    /\ UNCHANGED <<pc, state, appTerms, error, inflight>>
    /\ UNCHANGED driverVars
    /\ UNCHANGED chunkCallVars

NextCancel == Next \/ CancelRequest

SpecCancel == Init /\ [][NextCancel]_vars

\* C21: once the user has asked, after the call of some window, for the run
\* to be abandoned, no further window is submitted to the classifier: the
\* windows submitted are those that had been submitted when they asked.
C21_NoSubmitAfterCancel ==
    cancelledAfter >= 1 => Len(calls) = cancelledAfter

\* C22: every Term that analyzeChunk returns, and so every Term of the
\* result of analyzeText, which is made of these, has a confidence that is
\* a number from 0 to 100 and a position_end that is not below its
\* position_start, whatever the payload was.
C22_TermInvariants ==
    pc = "analyze_returned" =>
        \A k \in 1..Len(chunkTerms) :
            /\ chunkTerms[k].confidence.t = "number"
            /\ chunkTerms[k].confidence.n \in 0..100
            /\ chunkTerms[k].position_end >= chunkTerms[k].position_start

\* C25: every Term that a window's analysis returned and whose term occurs
\* in the window has its span inside the window, and the characters of the
\* document in the span are the term, compared case-insensitively.
C25_SpanInsideOwnWindow ==
    \A w \in 1..Len(windowTerms) :
        \A k \in 1..Len(windowTerms[w]) :
            LET t == windowTerms[w][k]
            IN Occurrences(t.term, chunks[w].chunk) # {} =>
                 /\ chunks[w].startIndex <= t.position_start
                 /\ t.position_end <= WindowEnd(w)
                 /\ toLowerCase(substring(text, t.position_start, t.position_end))
                       = toLowerCase(t.term)

\* The Terms analyzeChunk returns when the payload is the list of records
TermsOfList(list) == analyzeChunkRun(JsonText(ShapeArray(list)), chunk, startIndex).terms

\* C26: the Terms analyzeChunk returns are those of the payload itself if it
\* is a list, otherwise those of its `terms` field if that is a list,
\* otherwise those of its `ambiguous_terms` field if that is a list; only
\* when none of these is a list is the payload itself taken as one record,
\* and only if it has a term field.
C26_ShapePreference ==
    (pc = "analyze_returned" /\ content.t = "string" /\ content.text = "json") =>
        LET v == content.value
        IN IF v.t = "array" THEN chunkTerms = TermsOfList(v.a)
           ELSE IF Get(v, "terms").t = "array" THEN chunkTerms = TermsOfList(Get(v, "terms").a)
           ELSE IF Get(v, "ambiguous_terms").t = "array"
               THEN chunkTerms = TermsOfList(Get(v, "ambiguous_terms").a)
           ELSE /\ chunkTerms \in {<<>>, TermsOfList(<<v>>)}
                /\ chunkTerms # <<>> => Get(v, "term") # JUndef

\* C26 witness: an object with a term field "b", a terms list of one record
\* "a" and an ambiguous_terms list gives the one Term of the terms list
C26_Witness ==
    /\ Mapped
    /\ Get(content.value, "term") = JStr(<<"b">>)
    /\ Get(content.value, "terms").t = "array"
    /\ Len(Get(content.value, "terms").a) = 1
    /\ Get(content.value, "ambiguous_terms").t = "array"
    /\ Len(chunkTerms) = 1
    /\ chunkTerms[1].term = <<"a">>
    /\ chunkTerms[1].confidence = JNum(70)

\* Side condition of C25, which bounds what its counterexample shows: on a
\* document without U+0130 the span of a found term lies in its window and
\* holds the term.
SpanInsideOwnWindowWithoutU0130 ==
    (\A p \in 1..Len(text) : text[p] # "U0130") => C25_SpanInsideOwnWindow

\* C27: every Term mergeTerms returns is one of its input Terms, with every
\* field as it was, and it is of the highest confidence among the input
\* Terms of its key; the output is ordered by the positions of these kept
\* Terms.
C27_SelectsAndReorders ==
    Returned =>
        /\ \A k \in 1..Len(result) :
              /\ \E x \in SameKey(result[k]) : allTerms[x] = result[k]
              /\ \A y \in SameKey(result[k]) :
                    result[k].confidence.n >= allTerms[y].confidence.n
        /\ \A k \in 1..(Len(result) - 1) :
              result[k].position_start <= result[k + 1].position_start

\* C27 witness: "A" with confidence 60 at 10, "a" with confidence 85 at 300
\* and "b" at 150 give "b" and then the "a" of confidence 85, at 300
C27_Witness ==
    /\ pc = "merge_done"
    /\ allTerms = <<MkTerm(<<"A">>, 60, 10), MkTerm(<<"a">>, 85, 300), MkTerm(<<"b">>, 60, 150)>>
    /\ result = <<MkTerm(<<"b">>, 60, 150), MkTerm(<<"a">>, 85, 300)>>

\* The calls of the classifier that have been made and have not yet settled
CallsInFlight == Len(calls) - Len(kinds)

\* C28: at most one call of the classifier is in flight, and while the call
\* of window k + 1 is in flight the calls of windows 1..k have returned and
\* their terms, and no others, are in the accumulated list, in window order.
C28_OneCallAtATime ==
    /\ CallsInFlight = (IF pc = "await" THEN 1 ELSE 0)
    /\ pc = "await" =>
          /\ calls[Len(calls)] = Len(windowTerms) + 1
          /\ \A k \in 1..Len(windowTerms) : calls[k] = k
          /\ allTerms = Flatten(windowTerms)

\* C28 witness: the call of window 3 is in flight, windows 1 and 2 have
\* returned and given terms
C28_Witness ==
    /\ pc = "await"
    /\ calls = <<1, 2, 3>>
    /\ Len(windowTerms) = 2
    /\ windowTerms[1] # <<>> /\ windowTerms[2] # <<>>
    /\ allTerms = windowTerms[1] \o windowTerms[2]

\* The places <<window, index>> of the Terms that the windows returned under
\* the key of Term t
PlacesOfKey(t) ==
    {p \in (1..Len(windowTerms)) \X (1..MaxRecords) :
        /\ p[2] <= Len(windowTerms[p[1]])
        /\ toLowerCase(windowTerms[p[1]][p[2]].term) = toLowerCase(t.term)}

\* Place p comes before place q: in an earlier window, or earlier in the
\* same window's payload
PlaceBefore(p, q) == p[1] < q[1] \/ (p[1] = q[1] /\ p[2] < q[2])

\* C29: the result of analyzeText is the merge of the windows' Terms taken
\* in window order, and within a window in payload order: the Term kept for
\* a key is of the highest confidence reported for it, and of the Terms of
\* that confidence it is the one from the earliest window.
C29_EarliestWindowWinsTies ==
    pc = "resolved" =>
        /\ result = mergeTerms(Flatten(windowTerms))
        /\ \A k \in 1..Len(result) :
              LET places == PlacesOfKey(result[k])
                  best == {p \in places : \A q \in places :
                              windowTerms[p[1]][p[2]].confidence.n
                                  >= windowTerms[q[1]][q[2]].confidence.n}
              IN \E p \in best :
                    /\ \A q \in best : p = q \/ PlaceBefore(p, q)
                    /\ result[k] = windowTerms[p[1]][p[2]]

\* C29 witness: windows 1 and 2 both report "b" with confidence 70, at
\* different positions, and the result holds the Term of window 1
C29_Witness ==
    /\ pc = "resolved"
    /\ Len(windowTerms) >= 2
    /\ Len(windowTerms[1]) = 1 /\ Len(windowTerms[2]) = 1
    /\ windowTerms[1][1].term = <<"b">> /\ windowTerms[2][1].term = <<"b">>
    /\ windowTerms[1][1].confidence = windowTerms[2][1].confidence
    /\ windowTerms[1][1].position_start # windowTerms[2][1].position_start
    /\ \E k \in 1..Len(result) : result[k] = windowTerms[1][1]
    /\ \A k \in 1..Len(result) : result[k] # windowTerms[2][1]

\* ---------------------------------------------------------------------
\* The App component: the workflow input -> analyzing -> results | input
\* around one run of analyzeText at a time
\* ---------------------------------------------------------------------

\* The message that handleTextSubmit stores for an analysis that failed on
\* a response of the given kind: err.message, or the fixed fallback text
ErrorMessage(kind) == <<"Analysis error", kind>>

\* The App as mounted: no document, no analysis started yet
InitApp ==
    /\ pc = "none"
    /\ text = <<>>
    /\ \E c \in ValidConfigs(MaxChunkSize) : chunkSize = c[1] /\ overlapSize = c[2]
    /\ chunks = <<>>
    /\ i = 0
    /\ allTerms = <<>>
    /\ result = NoResult
    /\ progress = <<>>
    /\ calls = <<>>
    /\ kinds = <<>>
    /\ windowTerms = <<>>
    /\ chunk = <<>>
    /\ startIndex = 0
    /\ content = NoResult
    /\ chunkTerms = <<>>
    /\ path = "none"
    /\ OuterInit

\* A submission that is accepted in any workflow state (at most twice over)
AppSubmit_anyState ==
    /\ \E doc \in PipelineDocs :
          /\ doc # <<>>
          /\ text' = doc
    /\ state' = "analyzing"
    /\ error' = NoError
    /\ inflight' = inflight + 1
    /\ inflight < 2
    /\ pc' = "idle"
    /\ chunks' = <<>>
    /\ i' = 0
    /\ allTerms' = <<>>
    /\ result' = NoResult
    /\ progress' = <<>>
    /\ calls' = <<>>
    /\ kinds' = <<>>
    /\ windowTerms' = <<>>
    /\ chunk' = <<>>
    /\ startIndex' = 0
    /\ content' = NoResult
    /\ chunkTerms' = <<>>
    /\ path' = "none"
    /\ UNCHANGED <<chunkSize, overlapSize, appTerms, cancelledAfter>>

\* TextInput.handleSubmit and App.handleTextSubmit up to the call of
\* analyzeText. TextInput is rendered only while state is 'input'; it
\* refuses a blank or too short text (its 100-character minimum is, for the
\* documents here, "not empty"). The accepted text is stored, the state
\* becomes 'analyzing', the error and the progress are cleared, and a new
\* run of analyzeText begins.
AppSubmit ==
    /\ state = "input"
    /\ \E doc \in PipelineDocs :
          /\ doc # <<>>
          /\ text' = doc
    /\ state' = "analyzing"
    /\ error' = NoError
    /\ inflight' = inflight + 1
    /\ pc' = "idle"
    /\ chunks' = <<>>
    /\ i' = 0
    /\ allTerms' = <<>>
    /\ result' = NoResult
    /\ progress' = <<>>
    /\ calls' = <<>>
    /\ kinds' = <<>>
    /\ windowTerms' = <<>>
    /\ chunk' = <<>>
    /\ startIndex' = 0
    /\ content' = NoResult
    /\ chunkTerms' = <<>>
    /\ path' = "none"
    /\ UNCHANGED <<chunkSize, overlapSize, appTerms, cancelledAfter>>

\* handleTextSubmit after the await, promise resolved: setTerms, then
\* setState('results')
AppResolves ==
    /\ pc = "resolved"
    /\ appTerms' = result
    /\ state' = "results"
    /\ inflight' = inflight - 1
    /\ pc' = "delivered"
    /\ UNCHANGED <<error, cancelledAfter>>
    /\ UNCHANGED driverVars
    /\ UNCHANGED chunkCallVars

\* handleTextSubmit's catch, promise rejected: setError with a message,
\* then setState('input')
AppRejects ==
    /\ pc = "rejected"
    /\ error' = ErrorMessage(kinds[Len(kinds)])
    /\ state' = "input"
    /\ inflight' = inflight - 1
    /\ pc' = "caught"
    /\ UNCHANGED <<appTerms, cancelledAfter>>
    /\ UNCHANGED driverVars
    /\ UNCHANGED chunkCallVars

\* handleReset, behind the "New Analysis" button that is rendered only
\* while state is 'results'
AppReset ==
    /\ state = "results"
    /\ state' = "input"
    /\ text' = <<>>
    /\ appTerms' = <<>>
    /\ error' = NoError
    /\ UNCHANGED <<pc, chunkSize, overlapSize, chunks, i, allTerms, result, progress,
                   calls, kinds, windowTerms, inflight, cancelledAfter>>
    /\ UNCHANGED chunkCallVars

NextApp ==
    \/ AppSubmit
    \/ Start
    \/ Report
    \/ Submit
    \/ ChunkRejects
    \/ ChunkResolves
    \/ Finish
    \/ AppResolves
    \/ AppRejects
    \/ AppReset

SpecApp == InitApp /\ [][NextApp]_vars

\* C30: the workflow state is 'results' only once analyzeText has resolved
\* and its result was handed over, and then the App's terms are exactly that
\* result; once a failed analysis was caught the state is 'input' with an
\* error message set; an analysis is in flight exactly while the state is
\* 'analyzing', and never more than one.
C30_AppWorkflow ==
    /\ state \in {"input", "analyzing", "results"}
    /\ state = "results" =>
          /\ pc = "delivered"
          /\ appTerms = result
    /\ pc \in {"rejected", "caught"} => state # "results"
    /\ pc = "caught" => state = "input" /\ error # NoError
    /\ inflight \in {0, 1}
    /\ inflight = 1 <=> state = "analyzing"

\* C30 witness: an analysis has resolved with a Term, which the App shows
\* in the state 'results'
C30_Witness ==
    /\ state = "results"
    /\ pc = "delivered"
    /\ appTerms = result
    /\ Len(appTerms) >= 1
    /\ error = NoError
    /\ inflight = 0

====
